---- MODULE Spec2Model ----
(***************************************************************************)
(* Model of flashyD: deck packaging (src/lib/anki.ts), the provider call  *)
(* and the completion parser (src/lib/ai.ts), the deck history in          *)
(* localStorage (src/lib/storage.ts), the App component and the            *)
(* DeckHistory component.                                                  *)
(*                                                                         *)
(* Strings are sequences of UTF-16 code units.  Date.now() and             *)
(* floor(Math.random() * 1e13) do not fit TLC's integers, so the clock is  *)
(* drawn from ClockMin .. ClockMin + MaxClock and the scaled random draw   *)
(* from 0 .. RandRange - 1 (the code's range is 0 .. 1e13 - 1).            *)
(***************************************************************************)
EXTENDS Integers, Sequences, FiniteSets, TLC

MaxCards == 2
MaxItems == 2
MaxNameLen == 6
MaxCallLen == 11
MaxModels == 51
MaxDecks == 3
MaxSaved == 1
MaxHistory == 3
MaxInFlight == 2
MaxClock == 1
RandRange == 2
ClockMin == 1000

Callers == {"app", "hist1", "hist2"}

VARIABLES sqlPromise, attempts, pc, awaiting, sqlOut, args, db, blob, dbFaults,
          text, ppc, pres, fileName, dlName, dpc,
          resp, cpc, cout, provided, mpc, mout,
          stored, clock, issued, live, savedDecks,
          file, extractedText, pastedText, cardsState, isExtracting, isGenerating,
          generationError, configDeckName, extracting, generating, settled, cleared,
          downloadingId, inFlight, delivered

parseVars == <<text, ppc, pres>>

dlVars == <<fileName, dlName, dpc>>

ankiVars == <<sqlPromise, attempts, pc, awaiting, sqlOut, args, db, blob, dbFaults>>

callVars == <<resp, cpc, cout>>

listVars == <<provided, mpc, mout>>

storeVars == <<stored, clock, issued, live, savedDecks>>

appVars == <<file, extractedText, pastedText, cardsState, isExtracting, isGenerating,
             generationError, configDeckName, extracting, generating, settled, cleared>>

histVars == <<downloadingId, inFlight, delivered>>

uiVars == <<callVars, listVars, storeVars, appVars, histVars>>

vars == <<sqlPromise, attempts, pc, awaiting, sqlOut, args, db, blob, dbFaults,
          text, ppc, pres, fileName, dlName, dpc,
          resp, cpc, cout, provided, mpc, mout,
          stored, clock, issued, live, savedDecks,
          file, extractedText, pastedText, cardsState, isExtracting, isGenerating,
          generationError, configDeckName, extracting, generating, settled, cleared,
          downloadingId, inFlight, delivered>>

-----------------------------------------------------------------------------
(* Flashcards                                                              *)

Sep == 31
Space == 32

(* the text JavaScript writes for a field the record lacks: "undefined" *)
Undef == <<117, 110, 100, 101, 102, 105, 110, 101, 100>>

(* "zzzzzzzz": its checksum passes 2^32 on the way and ends negative *)
LongFront == <<122, 122, 122, 122, 122, 122, 122, 122>>

AbsentCard == [front |-> Undef, back |-> Undef, tags |-> <<Undef>>, has |-> {}]

CardPool ==
  { [front |-> <<81>>, back |-> <<65>>, tags |-> << <<120>>, <<121>> >>,
     has |-> {"front", "back", "tags"}],
    [front |-> <<81, Sep, 82>>, back |-> <<66>>, tags |-> << >>,
     has |-> {"front", "back", "tags"}],
    AbsentCard,
    [front |-> LongFront, back |-> Undef, tags |-> << >>,
     has |-> {"front", "tags"}] }

PlainCard == [front |-> <<81>>, back |-> <<65>>, tags |-> << <<120>>, <<121>> >>,
              has |-> {"front", "back", "tags"}]

DeckNames == {"Test", "Default"}

CardLists(n) == UNION { [1..k -> CardPool] : k \in 0..n }

-----------------------------------------------------------------------------
(* Identifier generation, anki.ts 27-29 and 74-75                          *)

DeckIdOf(r) == r + 1

ModelIdOf(r) == r + 1

(* note ids counting down from now *)
NoteId_Desc(now, idx) == now - idx

NoteId(now, idx) == now + idx

(* card ids taken from the note range *)
CardId_NoOffset(now, idx, n) == now + idx

CardId(now, idx, n) == now + idx + n

(* the field used as it is *)
FieldOrEmpty_Raw(card, f) == card[f]

(* card.front || '' : an absent or empty field is the empty string *)
FieldOrEmpty(card, f) == IF f \in card.has THEN card[f] ELSE << >>

RECURSIVE JoinSpace(_)
JoinSpace(ts) ==
  IF ts = << >> THEN << >>
  ELSE IF Len(ts) = 1 THEN ts[1]
  ELSE ts[1] \o <<Space>> \o JoinSpace(Tail(ts))

TagString(card) == IF "tags" \in card.has THEN JoinSpace(card.tags) ELSE << >>

Flds(front, back) == front \o <<Sep>> \o back

(* csum = ((csum << 5) - csum + c) | 0 on two 16-bit limbs <<hi, lo>> of   *)
(* the 32-bit two's complement word.                                       *)
CsumStep_NoWrap(h, c) ==
  LET lo == h[2] * 31 + c
      hi == h[1] * 31 + (lo \div 65536)
  IN  <<hi, lo % 65536>>

CsumStep(h, c) ==
  LET lo == h[2] * 31 + c
      hi == h[1] * 31 + (lo \div 65536)
  IN  <<hi % 65536, lo % 65536>>

RECURSIVE CsumWord(_, _)
CsumWord(h, s) == IF s = << >> THEN h ELSE CsumWord(CsumStep(h, Head(s)), Tail(s))

(* Math.abs of the signed word, again as limbs (2^31 stays 2^31) *)
AbsWord(h) ==
  IF h[1] < 32768 THEN h
  ELSE IF h[2] = 0 THEN <<65536 - h[1], 0>>
  ELSE <<65535 - h[1], 65536 - h[2]>>

Csum(front) == AbsWord(CsumWord(<<0, 0>>, front))

NoteRow(card, idx, now, modelId) ==
  LET front == FieldOrEmpty(card, "front")
      back  == FieldOrEmpty(card, "back")
  IN  [id |-> NoteId(now, idx), mid |-> modelId, mod |-> now \div 1000,
       usn |-> -1, tags |-> TagString(card), flds |-> Flds(front, back),
       sfld |-> front, csum |-> Csum(front), flags |-> 0]

(* every card pointing at the first note *)
CardRow_FirstNote(idx, n, now, deckId) ==
  [id |-> CardId(now, idx, n), nid |-> NoteId(now, 0), did |-> deckId,
   ord |-> 0, mod |-> now \div 1000, usn |-> -1, type |-> 0, queue |-> 0,
   due |-> idx + 1]

CardRow(idx, n, now, deckId) ==
  [id |-> CardId(now, idx, n), nid |-> NoteId(now, idx), did |-> deckId,
   ord |-> 0, mod |-> now \div 1000, usn |-> -1, type |-> 0, queue |-> 0,
   due |-> idx + 1]

-----------------------------------------------------------------------------
(* Collection metadata, anki.ts 38-70                                      *)

DefaultDeck == [id |-> 1, name |-> "Default", mod |-> 0, usn |-> 0]

(* decks = {'1': Default}; decks[deckId.toString()] = {...}: the second    *)
(* assignment wins when the keys coincide.                                 *)
Decks(deckId, deckName, now) ==
  [k \in {1, deckId} |->
     IF k = deckId
       THEN [id |-> deckId, name |-> deckName, mod |-> now \div 1000, usn |-> -1]
       ELSE DefaultDeck]

Models(modelId, deckId, now) ==
  [k \in {modelId} |->
     [id |-> modelId, name |-> "Basic", mod |-> now \div 1000, did |-> deckId]]

ColRow(n, deckId, modelId, deckName, now) ==
  [id |-> 1, crt |-> now \div 1000, ver |-> 11,
   conf |-> [curDeck |-> 1, curModel |-> modelId, nextPos |-> n + 1],
   models |-> Models(modelId, deckId, now),
   decks |-> Decks(deckId, deckName, now)]

-----------------------------------------------------------------------------
(* The in-memory database, sql.js                                          *)

Tables == {"col", "notes", "cards", "revlog", "graves"}

NoDb == [made |-> FALSE, open |-> FALSE, tables |-> {}, col |-> << >>,
         notes |-> << >>, cards |-> << >>]

(* an engine that hands every build the instance an earlier build made *)
NewDb_Shared ==
  IF \E c \in Callers : db[c].db.made
    THEN [(db[CHOOSE c \in Callers : db[c].db.made].db) EXCEPT !.open = TRUE]
    ELSE [NoDb EXCEPT !.made = TRUE, !.open = TRUE]

(* new SQL.Database() *)
NewDb == [NoDb EXCEPT !.made = TRUE, !.open = TRUE]

NoBinary == [present |-> FALSE, tables |-> {}, col |-> << >>, notes |-> << >>,
             cards |-> << >>]

Export(d) == [present |-> TRUE, tables |-> d.tables, col |-> d.col,
              notes |-> d.notes, cards |-> d.cards]

Ids(rows) == { rows[i].id : i \in 1..Len(rows) }

(* One db.run: ok is FALSE when SQLite rejects the statement (missing      *)
(* table, duplicate table, PRIMARY KEY conflict).                          *)
Run(d, st) ==
  IF st.op = "create"
    THEN IF st.table \in d.tables THEN [ok |-> FALSE, db |-> d]
         ELSE [ok |-> TRUE, db |-> [d EXCEPT !.tables = @ \cup {st.table}]]
  ELSE IF st.table \notin d.tables \/ st.row.id \in Ids(d[st.table])
    THEN [ok |-> FALSE, db |-> d]
  ELSE [ok |-> TRUE, db |-> [d EXCEPT ![st.table] = Append(@, st.row)]]

CreateStmts ==
  << [op |-> "create", table |-> "col"], [op |-> "create", table |-> "notes"],
     [op |-> "create", table |-> "cards"], [op |-> "create", table |-> "revlog"],
     [op |-> "create", table |-> "graves"] >>

RECURSIVE CardStmts(_, _, _, _, _)
CardStmts(cards, idx, now, deckId, modelId) ==
  IF idx >= Len(cards) THEN << >>
  ELSE << [op |-> "insert", table |-> "notes",
           row |-> NoteRow(cards[idx + 1], idx, now, modelId)],
          [op |-> "insert", table |-> "cards",
           row |-> CardRow(idx, Len(cards), now, deckId)] >>
       \o CardStmts(cards, idx + 1, now, deckId, modelId)

Stmts(cards, deckName, now, deckId, modelId) ==
  CreateStmts
  \o << [op |-> "insert", table |-> "col",
         row |-> ColRow(Len(cards), deckId, modelId, deckName, now)] >>
  \o CardStmts(cards, 0, now, deckId, modelId)

(* a run that catches the failure of a statement and goes on *)
RECURSIVE RunAll_Swallow(_, _, _, _)
RunAll_Swallow(d, stmts, k, failAt) ==
  IF k > Len(stmts) THEN [ok |-> TRUE, db |-> d]
  ELSE IF k = failAt THEN RunAll_Swallow(d, stmts, k + 1, failAt)
  ELSE LET r == Run(d, stmts[k])
       IN  RunAll_Swallow(r.db, stmts, k + 1, failAt)

(* Runs the statements in order; the first one that throws (the engine     *)
(* fails at statement failAt, or SQLite rejects it) abandons the rest.     *)
RECURSIVE RunAll(_, _, _, _)
RunAll(d, stmts, k, failAt) ==
  IF k > Len(stmts) THEN [ok |-> TRUE, db |-> d]
  ELSE IF k = failAt THEN [ok |-> FALSE, db |-> d]
  ELSE LET r == Run(d, stmts[k])
       IN  IF r.ok THEN RunAll(r.db, stmts, k + 1, failAt) ELSE r

(* generateAnkiPackage from new SQL.Database() to the call of              *)
(* zip.generateAsync: one synchronous run.  failAt = 0: nothing fails;     *)
(* failAt = Len(stmts) + 1: db.export() throws.                            *)
BuildDb(cards, deckName, now, rd, rm, failAt) ==
  LET deckId  == DeckIdOf(rd)
      modelId == ModelIdOf(rm)
      stmts   == Stmts(cards, deckName, now, deckId, modelId)
      r       == RunAll(NewDb, stmts, 1, failAt)
  IN  IF ~r.ok THEN [ok |-> FALSE, db |-> r.db, binary |-> NoBinary,
                     deckId |-> deckId, modelId |-> modelId, now |-> now]
      ELSE IF failAt = Len(stmts) + 1
        THEN [ok |-> FALSE, db |-> r.db, binary |-> NoBinary,
              deckId |-> deckId, modelId |-> modelId, now |-> now]
      ELSE [ok |-> TRUE, db |-> [r.db EXCEPT !.open = FALSE],
            binary |-> Export(r.db),
            deckId |-> deckId, modelId |-> modelId, now |-> now]

NumStmts(cards) == Len(CreateStmts) + 1 + 2 * Len(cards)

(* dbFaults is the number of storage-engine failures the environment may   *)
(* still inject; with none left every statement is up to SQLite's rules.   *)
FailPoints(cards, budget) ==
  IF budget > 0 THEN 0..(NumStmts(cards) + 1) ELSE {0}


-----------------------------------------------------------------------------
(* parseJSON, ai.ts 319-396.  A text is a sequence of lexical items: the   *)
(* JSON punctuation, string literals (none of which contains a quote, a    *)
(* brace or a bracket), a number, white space, the fence and bare words.   *)
(* UStr is a string literal cut off before its closing quote.  SHead and   *)
(* STail are the two ends of a string literal whose text holds a fence     *)
(* marker (SHead, Fence, STail) or nothing more (SHead, STail).            *)

SFront == "\"front\""
SBack == "\"back\""
UStr == "\"Q9"
SHead == "\"a"
STail == "b\""
(* the three-backtick fence marker *)
Fence == "<fence>"
NL == "\n"

StrLits == {SFront, SBack, "\"tags\"", "\"Q1\"", "\"A1\"", "\"Q2\"", "\"A2\"",
            "\"Q3\"", "\"A3\"", "\"Q4\"", "\"x\""}

NumLits == {"42"}

WsToks == {" ", NL}

IsWs(t) == t \in WsToks

RECURSIVE SkipWs(_, _)
SkipWs(t, i) == IF i <= Len(t) /\ IsWs(t[i]) THEN SkipWs(t, i + 1) ELSE i

At(t, i) == IF i \in 1..Len(t) THEN t[i] ELSE "<eof>"

(* the index after the string literal that starts at j, or 0 *)
StrEnd(t, j) ==
  IF At(t, j) \in StrLits THEN j + 1
  ELSE IF At(t, j) = SHead /\ At(t, j + 1) = STail THEN j + 2
  ELSE IF At(t, j) = SHead /\ At(t, j + 1) = Fence /\ At(t, j + 2) = STail THEN j + 3
  ELSE 0

(* JSON.parse as a recogniser: the index after the value that starts at i  *)
(* (white space skipped), or 0 when there is no value there.               *)
RECURSIVE ValueEnd(_, _), ElemsEnd(_, _), MembersEnd(_, _)
ValueEnd(t, i) ==
  LET j == SkipWs(t, i)
      tok == At(t, j)
  IN  IF tok \in NumLits THEN j + 1
      ELSE IF StrEnd(t, j) # 0 THEN StrEnd(t, j)
      ELSE IF tok = "["
        THEN LET k == SkipWs(t, j + 1)
             IN  IF At(t, k) = "]" THEN k + 1 ELSE ElemsEnd(t, k)
      ELSE IF tok = "{"
        THEN LET k == SkipWs(t, j + 1)
             IN  IF At(t, k) = "}" THEN k + 1 ELSE MembersEnd(t, k)
      ELSE 0

ElemsEnd(t, i) ==
  LET e == ValueEnd(t, i)
  IN  IF e = 0 THEN 0
      ELSE LET k == SkipWs(t, e)
           IN  IF At(t, k) = "," THEN ElemsEnd(t, k + 1)
               ELSE IF At(t, k) = "]" THEN k + 1
               ELSE 0

MembersEnd(t, i) ==
  LET j == SkipWs(t, i)
      c == SkipWs(t, StrEnd(t, j))
  IN  IF StrEnd(t, j) = 0 \/ At(t, c) # ":" THEN 0
      ELSE LET e == ValueEnd(t, c + 1)
           IN  IF e = 0 THEN 0
               ELSE LET k == SkipWs(t, e)
                    IN  IF At(t, k) = "," THEN MembersEnd(t, k + 1)
                        ELSE IF At(t, k) = "}" THEN k + 1
                        ELSE 0

JsonOk(t) ==
  LET e == ValueEnd(t, 1) IN e # 0 /\ SkipWs(t, e) > Len(t)

JsonKind(t) ==
  LET tok == At(t, SkipWs(t, 1))
  IN  IF tok = "[" THEN "array"
      ELSE IF tok = "{" THEN "object"
      ELSE IF tok \in NumLits THEN "number"
      ELSE "string"

NoWs(t) == SelectSeq(t, LAMBDA x : ~IsWs(x))

(* the decoded elements of a well-formed array, each as its tokens without *)
(* insignificant white space; i is the index of an element or of "]"       *)
RECURSIVE Elems(_, _)
Elems(t, i) ==
  LET j == SkipWs(t, i)
  IN  IF At(t, j) = "]" THEN << >>
      ELSE LET e == ValueEnd(t, j)
               k == SkipWs(t, e)
           IN  <<NoWs(SubSeq(t, j, e - 1))>>
               \o (IF At(t, k) = "," THEN Elems(t, k + 1) ELSE << >>)

(* the value JSON.parse returns for a well-formed text *)
Decode(t) ==
  IF JsonKind(t) = "array"
    THEN [threw |-> FALSE, kind |-> "array", items |-> Elems(t, SkipWs(t, 1) + 1)]
    ELSE [threw |-> FALSE, kind |-> JsonKind(t), items |-> <<NoWs(t)>>]

NoResult == [threw |-> FALSE, kind |-> "none", items |-> << >>]

Threw == [threw |-> TRUE, kind |-> "none", items |-> << >>]

(* .replace(/FENCEjson\n?/g, "") with FENCE the three backticks *)
RECURSIVE StripJsonFence(_)
StripJsonFence(t) ==
  IF t = << >> THEN << >>
  ELSE IF Len(t) >= 2 /\ t[1] = Fence /\ t[2] = "json"
    THEN IF Len(t) >= 3 /\ t[3] = NL
           THEN StripJsonFence(SubSeq(t, 4, Len(t)))
           ELSE StripJsonFence(SubSeq(t, 3, Len(t)))
  ELSE <<t[1]>> \o StripJsonFence(Tail(t))

(* .replace(/FENCE\n?/g, "") *)
RECURSIVE StripFence(_)
StripFence(t) ==
  IF t = << >> THEN << >>
  ELSE IF t[1] = Fence
    THEN IF Len(t) >= 2 /\ t[2] = NL
           THEN StripFence(SubSeq(t, 3, Len(t)))
           ELSE StripFence(Tail(t))
  ELSE <<t[1]>> \o StripFence(Tail(t))

RECURSIVE TrimEnd(_)
TrimEnd(t) ==
  IF t # << >> /\ IsWs(t[Len(t)]) THEN TrimEnd(SubSeq(t, 1, Len(t) - 1)) ELSE t

Trim(t) == TrimEnd(SubSeq(t, SkipWs(t, 1), Len(t)))

CleanText(t) == Trim(StripFence(StripJsonFence(t)))

(* indexOf / lastIndexOf, 0 for -1 *)
IndexOf(t, x) ==
  IF \E i \in 1..Len(t) : t[i] = x
    THEN CHOOSE i \in 1..Len(t) : t[i] = x /\ \A j \in 1..(i - 1) : t[j] # x
    ELSE 0

LastIndexOf(t, x) ==
  IF \E i \in 1..Len(t) : t[i] = x
    THEN CHOOSE i \in 1..Len(t) : t[i] = x /\ \A j \in (i + 1)..Len(t) : t[j] # x
    ELSE 0

IsBrace(x) == x \in {"{", "}"}

(* "key"\s*:\s*"[^"]*" at position i, before position q *)
KeyColonStr(t, i, key, q) ==
  /\ At(t, i) = key
  /\ LET c == SkipWs(t, i + 1)
         v == SkipWs(t, c + 1)
     IN  At(t, c) = ":" /\ StrEnd(t, v) # 0 /\ StrEnd(t, v) <= q

ValuePos(t, i) == SkipWs(t, SkipWs(t, i + 1) + 1)

(* objectPattern matched at the "{" of position p: the index of the "}"    *)
(* that ends the match, or 0.  [^{}]* cannot cross a brace, so the match   *)
(* ends at the first brace after p.                                        *)
MatchEnd(t, p) ==
  IF At(t, p) # "{" \/ ~(\E q \in (p + 1)..Len(t) : IsBrace(t[q])) THEN 0
  ELSE LET q == CHOOSE q \in (p + 1)..Len(t) :
                  IsBrace(t[q]) /\ \A r \in (p + 1)..(q - 1) : ~IsBrace(t[r])
       IN  IF /\ t[q] = "}"
              /\ \E i \in (p + 1)..(q - 1) :
                   /\ KeyColonStr(t, i, SFront, q)
                   /\ \E j \in StrEnd(t, ValuePos(t, i))..(q - 1) :
                        KeyColonStr(t, j, SBack, q)
             THEN q ELSE 0

(* cleanText.match(objectPattern): the matches from position p on, left to *)
(* right and not overlapping                                               *)
RECURSIVE Matches(_, _)
Matches(t, p) ==
  IF p > Len(t) THEN << >>
  ELSE LET q == MatchEnd(t, p)
       IN  IF q = 0 THEN Matches(t, p + 1)
           ELSE <<SubSeq(t, p, q)>> \o Matches(t, q + 1)

(* a loop that gives up at the first candidate that does not parse *)
ParseEach_StopAtBad(ms) ==
  LET bad == { i \in 1..Len(ms) : ~JsonOk(ms[i]) }
      n   == IF bad = {} THEN Len(ms)
             ELSE (CHOOSE i \in bad : \A j \in bad : i <= j) - 1
  IN  [i \in 1..n |-> NoWs(ms[i])]

(* for (const m of matches) try { cards.push(JSON.parse(m)) } catch {} *)
ParseEach(ms) ==
  LET good == SelectSeq(ms, LAMBDA m : JsonOk(m))
  IN  [i \in 1..Len(good) |-> NoWs(good[i])]

RegexExtract(clean) ==
  LET cards == ParseEach(Matches(clean, 1))
  IN  IF cards # << >> THEN [threw |-> FALSE, kind |-> "array", items |-> cards]
      ELSE Threw

(* if (arrStart === -1) throw *)
NoArrayStart(arrStart) == arrStart = 0

Recovery(clean0) ==
  LET arrStart == IndexOf(clean0, "[")
  IN  IF NoArrayStart(arrStart) THEN Threw
      ELSE LET clean == SubSeq(clean0, arrStart, Len(clean0))
               lastBrace == LastIndexOf(clean, "}")
           IN  IF lastBrace = 0 THEN Threw
               ELSE LET recovered == SubSeq(clean, 1, lastBrace) \o <<"]">>
                    IN  IF JsonOk(recovered) THEN Decode(recovered)
                        ELSE RegexExtract(clean)

parseJSON(t) ==
  LET cleanText == CleanText(t)
  IN  IF JsonOk(cleanText) THEN Decode(cleanText) ELSE Recovery(cleanText)

-----------------------------------------------------------------------------
(* Completion texts                                                        *)

Obj1 == <<"{", SFront, ":", "\"Q1\"", ",", SBack, ":", "\"A1\"", "}">>

Obj2 == <<"{", SFront, ":", " ", "\"Q2\"", ",", SBack, ":", "\"A2\"", ",",
          "\"tags\"", ":", "[", "\"x\"", "]", "}">>

(* the comma between the members is missing *)
BadObj == <<"{", SFront, ":", "\"Q3\"", " ", SBack, ":", "\"A3\"", "}">>

NoBackObj == <<"{", SFront, ":", "\"Q4\"", "}">>

(* a front text that holds a fence marker *)
FenceObj == <<"{", SFront, ":", SHead, Fence, STail, ",", SBack, ":", "\"A3\"", "}">>

(* back written before front *)
BackFirstObj == <<"{", SBack, ":", "\"A2\"", ",", SFront, ":", "\"Q2\"", "}">>

FlashObjs == {Obj1, Obj2, FenceObj, BackFirstObj}

ItemPool == FlashObjs \cup {BadObj, NoBackObj, <<"42">>}

Prefixes == { << >>, <<Fence, "json", NL>>, <<Fence, NL>>,
              <<Fence, "python", NL>>, <<"Here", " ">> }

Opens == { << >>, <<"[">> }

(* the text cut inside the next object, the second time right after a "}"  *)
(* of that object's front text                                             *)
CutTails == { << >>, <<",">>, <<",", NL, "{", SFront, ":", UStr>>,
              <<",", "{", SFront, ":", SHead, "}">> }

Tails == CutTails \cup { <<"]">> }

Suffixes == { << >>, <<NL, Fence>>, <<" ", "Done">> }

RECURSIVE JoinComma(_)
JoinComma(items) ==
  IF items = << >> THEN << >>
  ELSE IF Len(items) = 1 THEN items[1]
  ELSE items[1] \o <<",">> \o JoinComma(Tail(items))

ItemLists(n) == UNION { [1..k -> ItemPool] : k \in 0..n }

Texts ==
  { pre \o op \o JoinComma(items) \o tl \o suf :
      pre \in Prefixes, op \in Opens, items \in ItemLists(MaxItems),
      tl \in Tails, suf \in Suffixes }

-----------------------------------------------------------------------------
(* callOpenRouter, ai.ts 225-317.  An error message is a sequence of       *)
(* words; a response is what fetch produced: a network failure, or a       *)
(* status with an error body, or a success body.                           *)

Statuses == {200, 400, 401, 402, 403, 429, 500, 502, 503}

(* response.ok *)
ResponseOk(status) == status \in 200..299

NoMessage == << >>

(* the body of a non-success response: unreadable or empty, not JSON, JSON *)
(* without error.message, and JSON with an error.message                   *)
ErrBodies ==
  { [raw |-> "empty", message |-> NoMessage],
    [raw |-> "html", message |-> NoMessage],
    [raw |-> "json", message |-> NoMessage],
    [raw |-> "json", message |-> <<"Provider", "returned", "error">>],
    [raw |-> "json", message |-> <<"Failed", "to", "Authenticate", "request">>] }

NoBody == [raw |-> "empty", message |-> NoMessage]

(* String.prototype.toLowerCase on a word *)
ToLowerCase(w) == IF w = "Authenticate" THEN "authenticate" ELSE w

(* message.toLowerCase().includes("authenticate") *)
IncludesAuthenticate(message) ==
  \E i \in 1..Len(message) : ToLowerCase(message[i]) = "authenticate"

DefaultMessage(status) == <<"OpenRouter", "API", "failed", ToString(status)>>

(* message = parsed.error?.message || message, inside try/catch *)
ErrorMessage(status, body) ==
  IF body.raw = "json" /\ body.message # NoMessage THEN body.message
  ELSE DefaultMessage(status)

(* the chain of ifs of lines 272-294 *)
Classify(status, message) ==
  IF status = 401 \/ status = 403 \/ IncludesAuthenticate(message) THEN "auth"
  ELSE IF status = 402 THEN "credits"
  ELSE IF status = 429 THEN "rate"
  ELSE IF status = 502 \/ status = 503 THEN "unavailable"
  ELSE "generic"

(* the body of a success response: not JSON, the JSON value null, or an    *)
(* object whose choices[0].message.content chain ends where kind says      *)
DataKinds == {"notjson", "nulldata", "nochoices", "emptychoices", "nomessage",
              "nocontent", "nullcontent", "content"}

NoData == [kind |-> "nochoices", content |-> << >>]

(* the completion texts the provider may answer with *)
CallTexts == { t \in Texts : Len(t) <= MaxCallLen }

SuccessData ==
  { [kind |-> k, content |-> << >>] : k \in DataKinds }
  \cup { [kind |-> "content", content |-> t] : t \in CallTexts }

Responses ==
  { [net |-> TRUE, status |-> 0, body |-> NoBody, data |-> NoData] }
  \cup { [net |-> FALSE, status |-> st, body |-> b, data |-> NoData] :
           st \in { x \in Statuses : ~ResponseOk(x) }, b \in ErrBodies }
  \cup { [net |-> FALSE, status |-> st, body |-> NoBody, data |-> d] :
           st \in { x \in Statuses : ResponseOk(x) }, d \in SuccessData }

(* data.choices?.[0]?.message?.content *)
ContentOf(data) ==
  IF data.kind = "content" THEN [defined |-> TRUE, text |-> data.content]
  ELSE [defined |-> FALSE, text |-> << >>]

(* an empty string passing for a completion *)
NoContent_OnlyMissing(c) == ~c.defined

(* if (!text) *)
NoContent(c) == ~c.defined \/ c.text = << >>

CallError(kind) == [err |-> kind, invoked |-> FALSE, arg |-> << >>, result |-> NoResult]

NoCall == CallError("none")

callOpenRouter(r) ==
  IF r.net THEN CallError("network")
  ELSE IF ~ResponseOk(r.status)
    THEN CallError(Classify(r.status, ErrorMessage(r.status, r.body)))
  ELSE IF r.data.kind = "notjson" THEN CallError("syntax")
  ELSE IF r.data.kind = "nulldata" THEN CallError("type")
  ELSE LET c == ContentOf(r.data)
       IN  IF NoContent(c) THEN CallError("empty")
           ELSE [err |-> "none", invoked |-> TRUE, arg |-> c.text,
                 result |-> parseJSON(c.text)]

IdleCall ==
  /\ resp = [net |-> TRUE, status |-> 0, body |-> NoBody, data |-> NoData]
  /\ cpc = "off"
  /\ cout = NoCall

-----------------------------------------------------------------------------
(* fetchAvailableModels, ai.ts 52-105.  The provider's list is a sequence  *)
(* of entries; an entry's id is a number, its name the number that orders  *)
(* it among the names.                                                     *)

(* "Only text-output models are included, capped at 50 results", line 55 *)
ModelCap == 50

Prices == { <<"0", "0">>, <<"0", "0.002">>, <<"none", "none">> }

EntryKinds == { [text |-> tx, prompt |-> pr[1], completion |-> pr[2]] :
                  tx \in BOOLEAN, pr \in Prices }

(* the provider's entry at position i of a list of n *)
Entry(kind, i, n) ==
  [id |-> i, name |-> n + 1 - i, text |-> kind.text, prompt |-> kind.prompt,
   completion |-> kind.completion]

ProviderLists ==
  { [i \in 1..n |-> Entry(pat[((i - 1) % Len(pat)) + 1], i, n)] :
      n \in 0..MaxModels, pat \in UNION { [1..k -> EntryKinds] : k \in 1..2 } }

(* PREFERRED_IDS, and two of the models of FALLBACK_MODELS *)
PreferredIds == {2, 3}

FallbackModels ==
  << [id |-> 2, name |-> 1, free |-> TRUE], [id |-> 3, name |-> 2, free |-> FALSE] >>

(* m.pricing?.prompt === "0" && m.pricing?.completion === "0" *)
IsFree(m) == m.prompt = "0" /\ m.completion = "0"

(* the for loop of lines 66-84 *)
RECURSIVE Collect(_)
Collect(list) ==
  IF list = << >> THEN << >>
  ELSE LET m == Head(list)
       IN  (IF m.text THEN <<[id |-> m.id, name |-> m.name, free |-> IsFree(m)]>>
            ELSE << >>) \o Collect(Tail(list))

(* the comparator of lines 87-95 is negative *)
Before(a, b) ==
  LET aPreferred == IF a.id \in PreferredIds THEN 0 ELSE 1
      bPreferred == IF b.id \in PreferredIds THEN 0 ELSE 1
      aFree == IF a.free THEN 0 ELSE 1
      bFree == IF b.free THEN 0 ELSE 1
  IN  IF aPreferred # bPreferred THEN aPreferred < bPreferred
      ELSE IF aFree # bFree THEN aFree < bFree
      ELSE a.name < b.name

RECURSIVE InsertModel(_, _)
InsertModel(m, sorted) ==
  IF sorted = << >> THEN <<m>>
  ELSE IF Before(m, Head(sorted)) THEN <<m>> \o sorted
  ELSE <<Head(sorted)>> \o InsertModel(m, Tail(sorted))

(* models.sort(...) *)
RECURSIVE SortModels(_)
SortModels(ms) ==
  IF ms = << >> THEN << >> ELSE InsertModel(Head(ms), SortModels(Tail(ms)))

NoModels == [live |-> FALSE, models |-> << >>]

IdleList ==
  /\ provided = << >>
  /\ mpc = "off"
  /\ mout = NoModels

-----------------------------------------------------------------------------
(* The deck history in localStorage, storage.ts (part_004).  The item      *)
(* under 'flashy_decks' is absent or the JSON text of an array of records; *)
(* JSON.stringify followed by JSON.parse gives the array back, a property  *)
(* whose value is undefined being dropped: the optional values below are   *)
(* sequences of length 0 or 1.                                             *)

NoItem == [present |-> FALSE, decks |-> << >>]

(* readAll: getItem gives null, or the text parses to the array written *)
ReadAll(item) == IF ~item.present THEN << >> ELSE item.decks

(* writeAll: setItem(STORAGE_KEY, JSON.stringify(decks)) *)
WriteAll(decks) == [present |-> TRUE, decks |-> decks]

(* deck.cards.length: the length of an array, undefined for the object or  *)
(* the number that C10's parseJSON can hand over                           *)
CardCountOf(cardsValue) ==
  IF cardsValue.kind = "array" THEN <<Len(cardsValue.items)>> ELSE << >>

DeckRecord(deck, id, now) ==
  [id |-> id, deckName |-> deck.deckName, cards |-> deck.cards,
   model |-> deck.model, difficulty |-> deck.difficulty,
   sourceFile |-> deck.sourceFile, createdAt |-> now,
   cardCount |-> CardCountOf(deck.cards), tags |-> deck.tags]

(* saveDeck, the item it writes *)
SaveDeckItem(item, deck, id, now) ==
  WriteAll(Append(ReadAll(item), DeckRecord(deck, id, now)))

(* a delete that also drops the oldest of the other records *)
DeleteDeckItem_AndOldest(item, id) ==
  LET kept == SelectSeq(ReadAll(item), LAMBDA d : d.id # id)
  IN  WriteAll(IF kept = << >> THEN kept ELSE Tail(kept))

(* deleteDeck: writeAll(readAll().filter(d => d.id !== id)) *)
DeleteDeckItem(item, id) ==
  WriteAll(SelectSeq(ReadAll(item), LAMBDA d : d.id # id))

RECURSIVE InsertDeck(_, _)
InsertDeck(d, sorted) ==
  IF sorted = << >> THEN <<d>>
  ELSE IF Head(sorted).createdAt - d.createdAt > 0
    THEN <<Head(sorted)>> \o InsertDeck(d, Tail(sorted))
  ELSE <<d>> \o sorted

(* .sort((a, b) => b.createdAt - a.createdAt), a stable sort: records of   *)
(* one millisecond keep the order of the array                             *)
RECURSIVE SortDecks(_)
SortDecks(decks) ==
  IF decks = << >> THEN << >> ELSE InsertDeck(Head(decks), SortDecks(Tail(decks)))

(* getDecks *)
getDecks(item) == SortDecks(ReadAll(item))

DefaultModel == "google/gemini-2.0-flash-001"

EmptyCards == [threw |-> FALSE, kind |-> "array", items |-> << >>]

OneCard == [threw |-> FALSE, kind |-> "array", items |-> <<NoWs(Obj1)>>]

DeckInputs ==
  { [deckName |-> n, cards |-> cs, model |-> DefaultModel,
     difficulty |-> "Intermediate", sourceFile |-> "Pasted text", tags |-> << >>] :
      n \in {"Bio"}, cs \in {EmptyCards, OneCard} }

Uuids == 1..MaxDecks

Times == ClockMin..(ClockMin + MaxClock)

IdleStore ==
  /\ stored = NoItem
  /\ clock = ClockMin
  /\ issued = {}
  /\ live = {}
  /\ savedDecks = << >>

-----------------------------------------------------------------------------
(* The App component, part_000.  The API key has been entered; model,      *)
(* difficulty and tags keep their initial values.                          *)

NoFile == [name |-> "", stem |-> ""]

(* a File: its name, and the name up to its last dot *)
Files == { [name |-> "a.pdf", stem |-> "a"] }

(* file.name.substring(0, file.name.lastIndexOf('.')) || file.name *)
BaseName(f) == IF f.stem # "" THEN f.stem ELSE f.name

PastedTexts == { << >>, <<" ", "notes", " ">> }

(* what extractText may resolve with for a file *)
ExtractedTexts(f) == { << >>, <<f.name>> }

DeckNameInputs == {"", "Bio"}

NoError == ""

NoGen == [active |-> FALSE, text |-> << >>, deckName |-> "", file |-> NoFile]

(* the provider's answers to a generation: unreachable, an array of one    *)
(* and of two cards, a single object that is not inside an array           *)
AppResponses ==
  { [net |-> TRUE, status |-> 0, body |-> NoBody, data |-> NoData] }
  \cup { [net |-> FALSE, status |-> 200, body |-> NoBody,
          data |-> [kind |-> "content", content |-> t]] :
           t \in { <<"[">> \o Obj1 \o <<"]">>,
                   <<"[">> \o Obj1 \o <<",">> \o Obj2 \o <<"]">>,
                   Obj1 } }

(* the ids of the decks one session of the App saves *)
SavedUuids == 1..MaxSaved

(* cards.length, 0 for what has no length *)
CardsLength(cardsValue) ==
  IF cardsValue.kind = "array" THEN Len(cardsValue.items) ELSE 0

(* the landing page is rendered: !file && !extractedText *)
Landing == file = NoFile /\ extractedText = << >>

(* config.deckName || 'Untitled Deck', file?.name ?? 'Pasted text', ... *)
DeckOf(gen, generatedCards) ==
  [deckName |-> IF gen.deckName # "" THEN gen.deckName ELSE "Untitled Deck",
   cards |-> generatedCards, model |-> DefaultModel,
   difficulty |-> "Intermediate",
   sourceFile |-> IF gen.file # NoFile THEN gen.file.name ELSE "Pasted text",
   tags |-> << >>]

IdleApp ==
  /\ file = NoFile
  /\ extractedText = << >>
  /\ pastedText = << >>
  /\ cardsState = EmptyCards
  /\ isExtracting = FALSE
  /\ isGenerating = FALSE
  /\ generationError = NoError
  /\ configDeckName = ""
  /\ extracting = {}
  /\ generating = NoGen
  /\ settled = NoCall
  /\ cleared = FALSE

-----------------------------------------------------------------------------
(* The DeckHistory component, DeckHistory.tsx.  The decks shown have the   *)
(* ids 1 .. MaxHistory; downloadingId = 0 stands for null.  inFlight[d] is *)
(* the number of handleDownload calls for deck d that wait on              *)
(* generateAnkiPackage.                                                    *)

HistoryDecks == 1..MaxHistory

NoDownload == 0

(* disabled={downloadingId === deck.id} *)
ButtonDisabled(d) == downloadingId = d

IdleHistory ==
  /\ downloadingId = NoDownload
  /\ inFlight = [d \in HistoryDecks |-> 0]
  /\ delivered = {}

IdleUi ==
  /\ IdleCall
  /\ IdleList
  /\ IdleStore
  /\ IdleApp
  /\ IdleHistory

-----------------------------------------------------------------------------
(* getSql, anki.ts 5-20.  An attempt is the promise chain                  *)
(* initSqlJs().then(f).catch(g): "pending" while initSqlJs runs, "initOk" /*)
(* "initErr" once it has settled and the reaction is queued, "fulfilled" / *)
(* "rejected" once the chained promise (the value of sqlPromise) settled.  *)

NoBlob == [present |-> FALSE, names |-> {}, collection |-> NoBinary, media |-> ""]

NoBuild == [ok |-> FALSE, db |-> NoDb, binary |-> NoBinary,
            deckId |-> 0, modelId |-> 0, now |-> 0]

NoOutcome == [st |-> "none", sql |-> 0]

PromiseState(p) == IF p \in 1..Len(attempts) THEN attempts[p] ELSE "none"

(* a getSql that forgets the memoized promise *)
NeedsInit_Always(p) == TRUE

(* if (!sqlPromise) *)
NeedsInit(p) == p = 0

(* a caller that waits on the newest initialisation, not on its own *)
AwaitedPromise_Latest(c) == Len(attempts)

(* await getSql(): the caller waits on the promise getSql returned to it *)
AwaitedPromise(c) == awaiting[c]

Call(c) ==
  /\ pc[c] = "idle"
  /\ IF NeedsInit(sqlPromise)
       THEN /\ attempts' = Append(attempts, "pending")
            /\ sqlPromise' = Len(attempts) + 1
       ELSE UNCHANGED <<attempts, sqlPromise>>
  /\ awaiting' = [awaiting EXCEPT ![c] = sqlPromise']
  /\ pc' = [pc EXCEPT ![c] = "awaitSql"]
  /\ UNCHANGED <<sqlOut, args, db, blob, dbFaults>>
  /\ UNCHANGED <<parseVars, dlVars, uiVars>>

InitSqlJsResolve(a) ==
  /\ a \in 1..Len(attempts) /\ attempts[a] = "pending"
  /\ attempts' = [attempts EXCEPT ![a] = "initOk"]
  /\ UNCHANGED <<sqlPromise, pc, awaiting, sqlOut, args, db, blob, dbFaults>>
  /\ UNCHANGED <<parseVars, dlVars, uiVars>>

InitSqlJsReject(a) ==
  /\ a \in 1..Len(attempts) /\ attempts[a] = "pending"
  /\ attempts' = [attempts EXCEPT ![a] = "initErr"]
  /\ UNCHANGED <<sqlPromise, pc, awaiting, sqlOut, args, db, blob, dbFaults>>
  /\ UNCHANGED <<parseVars, dlVars, uiVars>>

ThenHandler(a) ==
  /\ a \in 1..Len(attempts) /\ attempts[a] = "initOk"
  /\ attempts' = [attempts EXCEPT ![a] = "fulfilled"]
  /\ UNCHANGED <<sqlPromise, pc, awaiting, sqlOut, args, db, blob, dbFaults>>
  /\ UNCHANGED <<parseVars, dlVars, uiVars>>

(* a catch handler that leaves the rejected promise memoized *)
AfterCatch_Keep(p) == p

(* sqlPromise = null *)
AfterCatch(p) == 0

CatchHandler(a) ==
  /\ a \in 1..Len(attempts) /\ attempts[a] = "initErr"
  /\ sqlPromise' = AfterCatch(sqlPromise)
  /\ attempts' = [attempts EXCEPT ![a] = "rejected"]
  /\ UNCHANGED <<pc, awaiting, sqlOut, args, db, blob, dbFaults>>
  /\ UNCHANGED <<parseVars, dlVars, uiVars>>

(* await getSql() throws: generateAnkiPackage rejects *)
ResumeThrow(c) ==
  /\ pc[c] = "awaitSql"
  /\ PromiseState(AwaitedPromise(c)) = "rejected"
  /\ pc' = [pc EXCEPT ![c] = "failed"]
  /\ sqlOut' = [sqlOut EXCEPT ![c] = [st |-> "err", sql |-> 0]]
  /\ UNCHANGED <<sqlPromise, attempts, awaiting, args, db, blob, dbFaults>>
  /\ UNCHANGED <<parseVars, dlVars, uiVars>>

(* await getSql() returns the engine; lines 25-97 run without suspension *)
ResumeBuild(c) ==
  /\ pc[c] = "awaitSql"
  /\ PromiseState(AwaitedPromise(c)) = "fulfilled"
  /\ \E now \in ClockMin..(ClockMin + MaxClock), rd \in 0..(RandRange - 1),
        rm \in 0..(RandRange - 1),
        failAt \in FailPoints(args[c].cards, dbFaults) :
       LET b == BuildDb(args[c].cards, args[c].deckName, now, rd, rm, failAt)
       IN  /\ db' = [db EXCEPT ![c] = b]
           /\ pc' = [pc EXCEPT ![c] = IF b.ok THEN "awaitZip" ELSE "failed"]
           /\ dbFaults' = IF failAt = 0 THEN dbFaults ELSE dbFaults - 1
  /\ sqlOut' = [sqlOut EXCEPT ![c] = [st |-> "ok", sql |-> AwaitedPromise(c)]]
  /\ UNCHANGED <<sqlPromise, attempts, awaiting, args, blob>>
  /\ UNCHANGED <<parseVars, dlVars, uiVars>>

(* an archive without the media manifest *)
ZipEntries_NoMedia(dbBinary) ==
  [present |-> TRUE, names |-> {"collection.anki2"},
   collection |-> dbBinary, media |-> ""]

(* zip.file('collection.anki2', dbBinary); zip.file('media', '{}') *)
ZipEntries(dbBinary) ==
  [present |-> TRUE, names |-> {"collection.anki2", "media"},
   collection |-> dbBinary, media |-> "{}"]

ZipResolve(c) ==
  /\ pc[c] = "awaitZip"
  /\ blob' = [blob EXCEPT ![c] = ZipEntries(db[c].binary)]
  /\ pc' = [pc EXCEPT ![c] = "done"]
  /\ UNCHANGED <<sqlPromise, attempts, awaiting, sqlOut, args, db, dbFaults>>
  /\ UNCHANGED <<parseVars, dlVars, uiVars>>

ZipReject(c) ==
  /\ pc[c] = "awaitZip"
  /\ pc' = [pc EXCEPT ![c] = "failed"]
  /\ UNCHANGED <<sqlPromise, attempts, awaiting, sqlOut, args, db, blob, dbFaults>>
  /\ UNCHANGED <<parseVars, dlVars, uiVars>>

Next ==
  \/ \E c \in Callers : Call(c)
  \/ \E a \in 1..Len(attempts) : InitSqlJsResolve(a)
  \/ \E a \in 1..Len(attempts) : InitSqlJsReject(a)
  \/ \E a \in 1..Len(attempts) : ThenHandler(a)
  \/ \E a \in 1..Len(attempts) : CatchHandler(a)
  \/ \E c \in Callers : ResumeThrow(c)
  \/ \E c \in Callers : ResumeBuild(c)
  \/ \E c \in Callers : ZipResolve(c)
  \/ \E c \in Callers : ZipReject(c)

InitCommon ==
  /\ IdleUi
  /\ sqlPromise = 0
  /\ attempts = << >>
  /\ awaiting = [c \in Callers |-> 0]
  /\ sqlOut = [c \in Callers |-> NoOutcome]
  /\ db = [c \in Callers |-> NoBuild]
  /\ blob = [c \in Callers |-> NoBlob]
  /\ text = << >>
  /\ ppc = "off"
  /\ pres = NoResult
  /\ fileName = << >>
  /\ dlName = << >>
  /\ dpc = "off"

(* three concurrent downloads of small decks on a healthy storage engine *)
Init ==
  /\ InitCommon
  /\ dbFaults = 0
  /\ pc = [c \in Callers |-> "idle"]
  /\ args = [c \in Callers |->
               IF c = "app" THEN [cards |-> <<PlainCard>>, deckName |-> "Test"]
               ELSE IF c = "hist1" THEN [cards |-> << >>, deckName |-> "Default"]
               ELSE [cards |-> <<PlainCard, PlainCard>>, deckName |-> "Test"]]

Spec == Init /\ [][Next]_vars

(* one download, every card list up to MaxCards *)
InitBuild ==
  /\ InitCommon
  /\ dbFaults = 1
  /\ pc = [c \in Callers |-> IF c = "app" THEN "idle" ELSE "absent"]
  /\ \E cs \in CardLists(MaxCards), nm \in DeckNames :
       args = [c \in Callers |-> IF c = "app" THEN [cards |-> cs, deckName |-> nm]
                                 ELSE [cards |-> << >>, deckName |-> "Test"]]

SpecBuild == InitBuild /\ [][Next]_vars

-----------------------------------------------------------------------------
(* callOpenRouter hands one completion text to parseJSON, ai.ts 316        *)

ParseStep ==
  /\ ppc = "ready"
  /\ pres' = parseJSON(text)
  /\ ppc' = "parsed"
  /\ UNCHANGED <<sqlPromise, attempts, pc, awaiting, sqlOut, args, db, blob,
                 dbFaults, text>>
  /\ UNCHANGED <<dlVars, uiVars>>

NextParse == ParseStep

InitParse ==
  /\ IdleUi
  /\ sqlPromise = 0
  /\ attempts = << >>
  /\ awaiting = [c \in Callers |-> 0]
  /\ sqlOut = [c \in Callers |-> NoOutcome]
  /\ db = [c \in Callers |-> NoBuild]
  /\ blob = [c \in Callers |-> NoBlob]
  /\ dbFaults = 0
  /\ pc = [c \in Callers |-> "absent"]
  /\ args = [c \in Callers |-> [cards |-> << >>, deckName |-> "Test"]]
  /\ text \in Texts
  /\ ppc = "ready"
  /\ pres = NoResult
  /\ fileName = << >>
  /\ dlName = << >>
  /\ dpc = "off"

SpecParse == InitParse /\ [][NextParse]_vars


-----------------------------------------------------------------------------
(* downloadDeck, anki.ts 102-111.  A file name is a sequence of characters.*)

Apkg == <<".", "a", "p", "k", "g">>

NameChars == {".", "a", "p", "k", "g"}

FileNames == UNION { [1..k -> NameChars] : k \in 0..MaxNameLen }

(* String.prototype.endsWith *)
EndsWith(str, suffix) ==
  /\ Len(str) >= Len(suffix)
  /\ \A i \in 1..Len(suffix) : str[Len(str) - Len(suffix) + i] = suffix[i]

(* the extension appended without looking at the name *)
DownloadName_Append(name) == name \o Apkg

(* a.download = fileName.endsWith('.apkg') ? fileName : fileName + '.apkg' *)
DownloadName(name) == IF EndsWith(name, Apkg) THEN name ELSE name \o Apkg

downloadDeck ==
  /\ dpc = "ready"
  /\ dlName' = DownloadName(fileName)
  /\ dpc' = "clicked"
  /\ UNCHANGED <<ankiVars, parseVars, fileName, uiVars>>

NextDownload == downloadDeck

InitDownload ==
  /\ IdleUi
  /\ sqlPromise = 0
  /\ attempts = << >>
  /\ awaiting = [c \in Callers |-> 0]
  /\ sqlOut = [c \in Callers |-> NoOutcome]
  /\ db = [c \in Callers |-> NoBuild]
  /\ blob = [c \in Callers |-> NoBlob]
  /\ dbFaults = 0
  /\ pc = [c \in Callers |-> "absent"]
  /\ args = [c \in Callers |-> [cards |-> << >>, deckName |-> "Test"]]
  /\ text = << >>
  /\ ppc = "off"
  /\ pres = NoResult
  /\ fileName \in FileNames
  /\ dlName = << >>
  /\ dpc = "ready"

SpecDownload == InitDownload /\ [][NextDownload]_vars

IdleAnki ==
  /\ sqlPromise = 0
  /\ attempts = << >>
  /\ awaiting = [c \in Callers |-> 0]
  /\ sqlOut = [c \in Callers |-> NoOutcome]
  /\ db = [c \in Callers |-> NoBuild]
  /\ blob = [c \in Callers |-> NoBlob]
  /\ dbFaults = 0
  /\ pc = [c \in Callers |-> "absent"]
  /\ args = [c \in Callers |-> [cards |-> << >>, deckName |-> "Test"]]

IdleParse ==
  /\ text = << >>
  /\ ppc = "off"
  /\ pres = NoResult

IdleDl ==
  /\ fileName = << >>
  /\ dlName = << >>
  /\ dpc = "off"

-----------------------------------------------------------------------------
(* One call of callOpenRouter on one response of the provider              *)

CallStep ==
  /\ cpc = "ready"
  /\ cout' = callOpenRouter(resp)
  /\ cpc' = "done"
  /\ UNCHANGED <<ankiVars, parseVars, dlVars, resp, listVars, storeVars, appVars,
                 histVars>>

NextCall == CallStep

InitCall ==
  /\ IdleAnki
  /\ IdleParse
  /\ IdleDl
  /\ resp \in Responses
  /\ cpc = "ready"
  /\ cout = NoCall
  /\ IdleList
  /\ IdleStore
  /\ IdleApp
  /\ IdleHistory

SpecCall == InitCall /\ [][NextCall]_vars

-----------------------------------------------------------------------------
(* fetchAvailableModels on one list of the provider                        *)

(* the fetch succeeded and the body was read *)
FetchModelsOk ==
  /\ mpc = "fetching"
  /\ mout' = [live |-> TRUE, models |-> SortModels(Collect(provided))]
  /\ mpc' = "done"
  /\ UNCHANGED <<ankiVars, parseVars, dlVars, callVars, provided, storeVars,
                 appVars, histVars>>

(* the fetch failed, or !res.ok, or res.json() failed: the catch of 101 *)
FetchModelsFail ==
  /\ mpc = "fetching"
  /\ mout' = [live |-> FALSE, models |-> FallbackModels]
  /\ mpc' = "done"
  /\ UNCHANGED <<ankiVars, parseVars, dlVars, callVars, provided, storeVars,
                 appVars, histVars>>

NextModels == FetchModelsOk \/ FetchModelsFail

InitModels ==
  /\ IdleAnki
  /\ IdleParse
  /\ IdleDl
  /\ IdleCall
  /\ provided \in ProviderLists
  /\ mpc = "fetching"
  /\ mout = NoModels
  /\ IdleStore
  /\ IdleApp
  /\ IdleHistory

SpecModels == InitModels /\ [][NextModels]_vars

-----------------------------------------------------------------------------
(* The three operations of storage.ts on one browser's storage.  live is   *)
(* the set of records saved and not deleted since.                         *)

saveDeck(deck, id, now) ==
  /\ id \in Uuids \ issued
  /\ now \in Times /\ now >= clock
  /\ stored' = SaveDeckItem(stored, deck, id, now)
  /\ clock' = now
  /\ issued' = issued \cup {id}
  /\ live' = live \cup {DeckRecord(deck, id, now)}
  /\ UNCHANGED <<ankiVars, parseVars, dlVars, callVars, listVars, savedDecks,
                 appVars, histVars>>

deleteDeck(id) ==
  /\ stored' = DeleteDeckItem(stored, id)
  /\ live' = { r \in live : r.id # id }
  /\ UNCHANGED <<ankiVars, parseVars, dlVars, callVars, listVars, clock, issued,
                 savedDecks, appVars, histVars>>

(* setSavedDecks(getDecks()) *)
GetDecks ==
  /\ savedDecks' = getDecks(stored)
  /\ UNCHANGED <<ankiVars, parseVars, dlVars, callVars, listVars, stored, clock,
                 issued, live, appVars, histVars>>

NextStore ==
  \/ \E deck \in DeckInputs, id \in Uuids, now \in Times : saveDeck(deck, id, now)
  \/ \E id \in Uuids : deleteDeck(id)
  \/ GetDecks

InitStore ==
  /\ IdleAnki
  /\ IdleParse
  /\ IdleDl
  /\ IdleCall
  /\ IdleList
  /\ IdleStore
  /\ IdleApp
  /\ IdleHistory

SpecStore == InitStore /\ [][NextStore]_vars

-----------------------------------------------------------------------------
(* The handlers of App.  cleared is TRUE from Start Over until the user    *)
(* selects a file, submits text or loads a deck.                           *)

AppFrame == <<ankiVars, parseVars, dlVars, callVars, listVars, histVars>>

setPastedText(t) ==
  /\ Landing
  /\ pastedText' = t
  /\ UNCHANGED <<AppFrame, storeVars, file, extractedText, cardsState,
                 isExtracting, isGenerating, generationError, configDeckName,
                 extracting, generating, settled, cleared>>

handleTextSubmit ==
  /\ Landing
  /\ Trim(pastedText) # << >>
  /\ extractedText' = Trim(pastedText)
  /\ cardsState' = EmptyCards
  /\ generationError' = NoError
  /\ configDeckName' = IF configDeckName = "" THEN "My Deck" ELSE configDeckName
  /\ cleared' = FALSE
  /\ UNCHANGED <<AppFrame, storeVars, file, pastedText, isExtracting,
                 isGenerating, extracting, generating, settled>>

(* lines 80-84, and the effect of lines 55-60 that names the deck *)
handleFileSelect(f) ==
  /\ Landing
  /\ f \notin extracting
  /\ file' = f
  /\ isExtracting' = TRUE
  /\ extractedText' = << >>
  /\ cardsState' = EmptyCards
  /\ generationError' = NoError
  /\ configDeckName' = IF configDeckName = "" THEN BaseName(f) ELSE configDeckName
  /\ extracting' = extracting \cup {f}
  /\ cleared' = FALSE
  /\ UNCHANGED <<AppFrame, storeVars, pastedText, isGenerating, generating,
                 settled>>

(* await extractText(selectedFile) returns: lines 88, 94 *)
ExtractResolve(f, t) ==
  /\ f \in extracting
  /\ extractedText' = t
  /\ isExtracting' = FALSE
  /\ extracting' = extracting \ {f}
  /\ UNCHANGED <<AppFrame, storeVars, file, pastedText, cardsState, isGenerating,
                 generationError, configDeckName, generating, settled, cleared>>

(* await extractText(selectedFile) throws: lines 90-94 *)
ExtractReject(f) ==
  /\ f \in extracting
  /\ file' = NoFile
  /\ isExtracting' = FALSE
  /\ extracting' = extracting \ {f}
  /\ UNCHANGED <<AppFrame, storeVars, extractedText, pastedText, cardsState,
                 isGenerating, generationError, configDeckName, generating, settled,
                 cleared>>

handleConfigChange(n) ==
  /\ ~Landing
  /\ configDeckName' = n
  /\ UNCHANGED <<AppFrame, storeVars, file, extractedText, pastedText, cardsState,
                 isExtracting, isGenerating, generationError, extracting,
                 generating, settled, cleared>>

(* lines 99-108, up to the await; the button is there while the card list  *)
(* is empty and enabled when not generating and there is text              *)
handleGenerate ==
  /\ ~Landing
  /\ CardsLength(cardsState) = 0
  /\ ~isGenerating /\ extractedText # << >>
  /\ issued # SavedUuids
  /\ isGenerating' = TRUE
  /\ generationError' = NoError
  /\ cardsState' = EmptyCards
  /\ generating' = [active |-> TRUE, text |-> extractedText,
                    deckName |-> configDeckName, file |-> file]
  /\ UNCHANGED <<AppFrame, storeVars, file, extractedText, pastedText,
                 isExtracting, configDeckName, extracting, settled, cleared>>

(* await generateFlashcards(...) settles: lines 118-134 *)
GenerateSettle(r, id, now) ==
  /\ generating.active
  /\ id \in SavedUuids \ issued
  /\ now \in Times /\ now >= clock
  /\ LET out == callOpenRouter(r)
     IN  /\ settled' = out
         /\ IF out.err = "none" /\ ~out.result.threw
              THEN /\ cardsState' = out.result
                   /\ stored' = SaveDeckItem(stored, DeckOf(generating, out.result),
                                             id, now)
                   /\ clock' = now
                   /\ issued' = issued \cup {id}
                   /\ live' = live \cup
                        {DeckRecord(DeckOf(generating, out.result), id, now)}
                   /\ savedDecks' = getDecks(stored')
                   /\ UNCHANGED generationError
              ELSE /\ generationError' = "error.message"
                   /\ UNCHANGED <<cardsState, storeVars>>
  /\ isGenerating' = FALSE
  /\ generating' = NoGen
  /\ UNCHANGED <<AppFrame, file, extractedText, pastedText, isExtracting,
                 configDeckName, extracting, cleared>>

(* the Start Over button, lines 292-297 *)
StartOver ==
  /\ ~Landing
  /\ file' = NoFile
  /\ extractedText' = << >>
  /\ cardsState' = EmptyCards
  /\ pastedText' = << >>
  /\ cleared' = TRUE
  /\ UNCHANGED <<AppFrame, storeVars, isExtracting, isGenerating,
                 generationError, configDeckName, extracting, generating, settled>>

handleDeleteDeck(id) ==
  /\ \E i \in 1..Len(savedDecks) : savedDecks[i].id = id
  /\ stored' = DeleteDeckItem(stored, id)
  /\ live' = { r \in live : r.id # id }
  /\ savedDecks' = getDecks(stored')
  /\ UNCHANGED <<AppFrame, clock, issued, appVars>>

handleLoadDeck(i) ==
  /\ i \in 1..Len(savedDecks)
  /\ cardsState' = savedDecks[i].cards
  /\ configDeckName' = savedDecks[i].deckName
  /\ cleared' = FALSE
  /\ UNCHANGED <<AppFrame, storeVars, file, extractedText, pastedText,
                 isExtracting, isGenerating, generationError, extracting,
                 generating, settled>>

NextApp ==
  \/ \E t \in PastedTexts : setPastedText(t)
  \/ handleTextSubmit
  \/ \E f \in Files : handleFileSelect(f)
  \/ \E f \in Files : \E t \in ExtractedTexts(f) : ExtractResolve(f, t)
  \/ \E f \in Files : ExtractReject(f)
  \/ \E n \in DeckNameInputs : handleConfigChange(n)
  \/ handleGenerate
  \/ \E r \in AppResponses, id \in SavedUuids, now \in Times :
       GenerateSettle(r, id, now)
  \/ StartOver
  \/ \E id \in SavedUuids : handleDeleteDeck(id)
  \/ \E i \in 1..MaxSaved : handleLoadDeck(i)

InitApp ==
  /\ IdleAnki
  /\ IdleParse
  /\ IdleDl
  /\ IdleCall
  /\ IdleList
  /\ IdleStore
  /\ IdleApp
  /\ IdleHistory

SpecApp == InitApp /\ [][NextApp]_vars

-----------------------------------------------------------------------------
(* handleDownload of the deck history, DeckHistory.tsx 32-42               *)

HistoryFrame == <<ankiVars, parseVars, dlVars, callVars, listVars, storeVars,
                  appVars>>

(* a click on the download button of deck d: line 33, up to the await *)
handleDownload(d) ==
  /\ ~ButtonDisabled(d)
  /\ inFlight[d] < MaxInFlight
  /\ downloadingId' = d
  /\ inFlight' = [inFlight EXCEPT ![d] = @ + 1]
  /\ UNCHANGED <<HistoryFrame, delivered>>

(* generateAnkiPackage resolved: downloadDeck, then the finally of line 40 *)
DownloadResolve(d) ==
  /\ inFlight[d] > 0
  /\ inFlight' = [inFlight EXCEPT ![d] = @ - 1]
  /\ delivered' = delivered \cup {d}
  /\ downloadingId' = NoDownload
  /\ UNCHANGED HistoryFrame

(* generateAnkiPackage rejected: the catch, then the finally of line 40 *)
DownloadReject(d) ==
  /\ inFlight[d] > 0
  /\ inFlight' = [inFlight EXCEPT ![d] = @ - 1]
  /\ downloadingId' = NoDownload
  /\ UNCHANGED <<HistoryFrame, delivered>>

NextHistory ==
  \/ \E d \in HistoryDecks : handleDownload(d)
  \/ \E d \in HistoryDecks : DownloadResolve(d)
  \/ \E d \in HistoryDecks : DownloadReject(d)

InitHistory ==
  /\ IdleAnki
  /\ IdleParse
  /\ IdleDl
  /\ IdleCall
  /\ IdleList
  /\ IdleStore
  /\ IdleApp
  /\ IdleHistory

SpecHistory == InitHistory /\ [][NextHistory]_vars

-----------------------------------------------------------------------------
(* Properties of getSql                                                    *)

InFlight == { a \in 1..Len(attempts) : attempts[a] \in {"pending", "initOk", "initErr"} }

(* C1: at most one engine initialisation is in flight at any time, and     *)
(* every caller waiting on an unsettled initialisation waits on that one,  *)
(* which is the memoized promise.                                          *)
C1_SingleInitInFlight ==
  /\ Cardinality(InFlight) <= 1
  /\ \A c \in Callers :
       pc[c] = "awaitSql" /\ awaiting[c] \in InFlight => awaiting[c] = sqlPromise

C1_Witness ==
  \E c, d \in Callers :
    /\ c # d /\ pc[c] = "awaitSql" /\ pc[d] = "awaitSql"
    /\ awaiting[c] = awaiting[d] /\ PromiseState(awaiting[c]) = "pending"
    /\ Len(attempts) = 1

(* C2: callers that were handed the same initialisation promise and have   *)
(* been resumed saw the same outcome: the same engine, or the error.       *)
C2_SameOutcome ==
  \A c, d \in Callers :
    (awaiting[c] # 0 /\ awaiting[c] = awaiting[d]
       /\ sqlOut[c].st # "none" /\ sqlOut[d].st # "none")
    => sqlOut[c] = sqlOut[d]

C2_Witness ==
  \E c, d \in Callers :
    /\ c # d /\ awaiting[c] # 0 /\ awaiting[c] = awaiting[d]
    /\ sqlOut[c].st = "err" /\ sqlOut[d].st = "err"

(* C3: a rejected initialisation is never left memoized; the memoized      *)
(* promise is only ever cleared by the catch handler of that very promise, *)
(* is never replaced while set, and a call that finds it cleared starts a  *)
(* fresh pending initialisation.                                           *)
C3_FailureNotCached ==
  [][ /\ (sqlPromise' # 0 => PromiseState(sqlPromise)' # "rejected")
      /\ (sqlPromise # 0 /\ sqlPromise' # sqlPromise =>
            /\ sqlPromise' = 0
            /\ attempts[sqlPromise] = "initErr"
            /\ attempts'[sqlPromise] = "rejected")
      /\ \A c \in Callers :
           (pc[c] = "idle" /\ pc'[c] = "awaitSql" /\ sqlPromise = 0) =>
             /\ Len(attempts') = Len(attempts) + 1
             /\ awaiting'[c] = Len(attempts')
             /\ sqlPromise' = awaiting'[c]
             /\ attempts'[awaiting'[c]] = "pending"
    ]_vars

C3_Witness ==
  \E c, d \in Callers :
    /\ sqlOut[c].st = "err" /\ awaiting[c] = 1
    /\ sqlOut[d].st = "ok" /\ awaiting[d] = 2 /\ sqlPromise = 2

-----------------------------------------------------------------------------
(* Properties of one build                                                 *)

Started(c) == db[c].db.made

Notes(c) == db[c].db.notes

CardsOf(c) == db[c].db.cards

N(c) == Len(args[c].cards)

(* C4: the generated deck id and model id differ from the reserved id 1.   *)
C4_IdsNotReserved ==
  \A c \in Callers : Started(c) => db[c].deckId # 1 /\ db[c].modelId # 1

(* C5: in a completed build the note ids are now .. now+N-1, the card ids  *)
(* now+N .. now+2N-1, all 2N ids are different and none is 1.              *)
C5_IdsDisjoint ==
  \A c \in Callers :
    db[c].ok =>
      LET nids == Ids(Notes(c))
          cids == Ids(CardsOf(c))
          now  == db[c].now
      IN  /\ nids = { now + i : i \in 0..(N(c) - 1) }
          /\ cids = { now + N(c) + i : i \in 0..(N(c) - 1) }
          /\ nids \cap cids = {}
          /\ Cardinality(nids) = N(c) /\ Cardinality(cids) = N(c)
          /\ 1 \notin nids \cup cids

C5_Witness ==
  \E c \in Callers : db[c].ok /\ N(c) = 2 /\ Len(Notes(c)) = 2 /\ Len(CardsOf(c)) = 2

RECURSIVE Count(_, _)
Count(s, x) ==
  IF s = << >> THEN 0 ELSE (IF Head(s) = x THEN 1 ELSE 0) + Count(Tail(s), x)

(* C6: every stored flds value holds exactly one separator 0x1F.           *)
C6_OneSeparator ==
  \A c \in Callers :
    \A i \in 1..Len(Notes(c)) : Count(Notes(c)[i].flds, Sep) = 1

(* C7: a returned archive holds N notes and N cards, every note is the nid *)
(* of exactly one card, every card is in the generated deck, and the       *)
(* collection row with its deck definitions is present (also for N = 0).   *)
C7_OneCardPerNote ==
  \A c \in Callers :
    pc[c] = "done" =>
      LET snap == blob[c].collection
      IN  /\ blob[c].present /\ snap.present
          /\ Len(snap.notes) = N(c) /\ Len(snap.cards) = N(c)
          /\ \A i \in 1..Len(snap.notes) :
               Cardinality({ j \in 1..Len(snap.cards) :
                               snap.cards[j].nid = snap.notes[i].id }) = 1
          /\ \A j \in 1..Len(snap.cards) :
               /\ snap.cards[j].did = db[c].deckId
               /\ snap.cards[j].nid \in Ids(snap.notes)
          /\ Len(snap.col) = 1
          /\ db[c].deckId \in DOMAIN snap.col[1].decks
          /\ snap.col[1].conf.nextPos = N(c) + 1

C7_Witness ==
  \E c \in Callers :
    pc[c] = "done" /\ N(c) = 2 /\ Len(blob[c].collection.cards) = 2

(* C8: the decks blob of the collection row holds two deck definitions,    *)
(* the reserved deck 1 named Default and the generated deck with the       *)
(* supplied name.                                                          *)
C8_DefaultDeckKept ==
  \A c \in Callers :
    Len(db[c].db.col) = 1 =>
      LET decks == db[c].db.col[1].decks
      IN  /\ Cardinality(DOMAIN decks) = 2
          /\ 1 \in DOMAIN decks /\ decks[1] = DefaultDeck
          /\ \E k \in DOMAIN decks :
               k # 1 /\ decks[k].id = k /\ decks[k].name = args[c].deckName

-----------------------------------------------------------------------------
(* Properties of parseJSON                                                 *)

DirectRecords(clean) ==
  IF JsonOk(clean) /\ JsonKind(clean) = "array" THEN Decode(clean).items ELSE << >>

TruncationRecords(clean0) ==
  LET arrStart == IndexOf(clean0, "[")
      clean == SubSeq(clean0, arrStart, Len(clean0))
      lastBrace == LastIndexOf(clean, "}")
      recovered == SubSeq(clean, 1, lastBrace) \o <<"]">>
  IN  IF arrStart # 0 /\ lastBrace # 0 /\ JsonOk(recovered)
        THEN Decode(recovered).items ELSE << >>

PatternRecords(clean) == ParseEach(Matches(clean, 1))

(* C9: parseJSON raises only for a text from which neither the direct      *)
(* parse, nor truncation recovery, nor pattern extraction of front/back    *)
(* objects recovers a record.                                              *)
C9_RaisesOnlyOnTotalFailure ==
  (ppc = "parsed" /\ pres.threw) =>
    LET clean == CleanText(text)
    IN  /\ DirectRecords(clean) = << >>
        /\ TruncationRecords(clean) = << >>
        /\ PatternRecords(clean) = << >>

(* C10: whenever parseJSON returns, the value is an array.                 *)
C10_ReturnsSequence ==
  (ppc = "parsed" /\ ~pres.threw) => pres.kind = "array"

(* a well-formed array of flashcard objects *)
IsFlashArray(t) ==
  /\ JsonOk(t) /\ JsonKind(t) = "array"
  /\ LET es == Elems(t, SkipWs(t, 1) + 1)
     IN  \A i \in 1..Len(es) : es[i] \in { NoWs(o) : o \in FlashObjs }

(* the objects of a well-formed array as written in the text *)
InputRecords(t) == Elems(t, SkipWs(t, 1) + 1)

(* C11: for a well-formed array of flashcard objects parseJSON returns     *)
(* records equal to the objects of the text, in document order.            *)
C11_DirectParseEqualsInput ==
  (ppc = "parsed" /\ IsFlashArray(text)) =>
    /\ ~pres.threw /\ pres.kind = "array"
    /\ pres.items = InputRecords(text)

FencePrefixes == { <<Fence, "json", NL>>, <<Fence, NL>>, <<Fence, "python", NL>> }

FenceClose == <<NL, Fence>>

IsFenced(t, pre) ==
  /\ Len(t) >= Len(pre) + Len(FenceClose)
  /\ SubSeq(t, 1, Len(pre)) = pre
  /\ SubSeq(t, Len(t) - Len(FenceClose) + 1, Len(t)) = FenceClose

Unfenced(t, pre) == SubSeq(t, Len(pre) + 1, Len(t) - Len(FenceClose))

(* C12: a well-formed array inside a fence (json tag, another tag, no tag) *)
(* gives the same result as the array without the fence.                   *)
C12_FenceIsTransparent ==
  ppc = "parsed" =>
    \A pre \in FencePrefixes :
      (IsFenced(text, pre) /\ IsFlashArray(Unfenced(text, pre))) =>
        pres = parseJSON(Unfenced(text, pre))

(* C13: an array of flashcard objects cut after its k-th object (k >= 1),  *)
(* before the next object is complete and with no closing bracket, gives   *)
(* exactly the first k objects.                                            *)
C13_TruncationKeepsLeading ==
  ppc = "parsed" =>
    \A k \in 1..MaxItems : \A items \in [1..k -> FlashObjs] : \A tl \in CutTails :
      text = <<"[">> \o JoinComma(items) \o tl =>
        /\ ~pres.threw /\ pres.kind = "array"
        /\ pres.items = [i \in 1..k |-> NoWs(items[i])]

EmptyArray == <<"[", "]">>

(* C14: an empty array, bare or inside a fence, parses to zero records.    *)
C14_EmptyArrayIsSuccess ==
  (/\ ppc = "parsed"
   /\ \/ text = EmptyArray
      \/ \E pre \in FencePrefixes : text = pre \o EmptyArray \o FenceClose)
  => (~pres.threw /\ pres.kind = "array" /\ pres.items = << >>)

-----------------------------------------------------------------------------
(* Checksum and absent fields                                              *)

Wrap16(a) == ((a + 32768) % 65536) - 32768

(* h := (h * 32 - h + c) wrapped to a signed 32-bit integer *)
SignedStep(h, c) ==
  LET lo == (h % 65536) * 31 + c
      hi == Wrap16((h \div 65536) * 31 + (lo \div 65536))
  IN  hi * 65536 + (lo % 65536)

RECURSIVE SignedHash(_, _)
SignedHash(h, s) ==
  IF s = << >> THEN h ELSE SignedHash(SignedStep(h, Head(s)), Tail(s))

(* the absolute value, as <<value \div 2^16, value % 2^16>> *)
AbsLimbs(h) ==
  IF h >= 0 THEN <<h \div 65536, h % 65536>>
  ELSE IF h = (-2147483647) - 1 THEN <<32768, 0>>
  ELSE <<(-h) \div 65536, (-h) % 65536>>

FrontOf(c, i) ==
  IF "front" \in args[c].cards[i].has THEN args[c].cards[i].front ELSE << >>

BackOf(c, i) ==
  IF "back" \in args[c].cards[i].has THEN args[c].cards[i].back ELSE << >>

(* C15: the stored csum is the absolute value of the signed 32-bit hash of *)
(* the front text, and notes with the same front have the same csum.       *)
C15_Checksum ==
  \A c \in Callers :
    \A i \in 1..Len(Notes(c)) :
      /\ Notes(c)[i].csum = AbsLimbs(SignedHash(0, FrontOf(c, i)))
      /\ \A j \in 1..Len(Notes(c)) :
           Notes(c)[i].sfld = Notes(c)[j].sfld => Notes(c)[i].csum = Notes(c)[j].csum

C15_Witness ==
  \E c \in Callers :
    /\ pc[c] = "done"
    /\ \E i \in 1..Len(Notes(c)) :
         Notes(c)[i].sfld = LongFront /\ Notes(c)[i].csum = <<29144, 41728>>

(* C16: a card without front, back or tags does not make the build fail;  *)
(* the absent text counts as the empty string and absent tags as no tags.  *)
C16_AbsentFieldsAreEmpty ==
  \A c \in Callers :
    Started(c) =>
      /\ (dbFaults = 1 => db[c].ok /\ Len(Notes(c)) = N(c))
      /\ \A i \in 1..Len(Notes(c)) :
           LET card == args[c].cards[i]
               row  == Notes(c)[i]
           IN  /\ "front" \notin card.has =>
                    row.sfld = << >> /\ row.csum = <<0, 0>> /\ Head(row.flds) = Sep
               /\ "back" \notin card.has => row.flds = row.sfld \o <<Sep>>
               /\ "tags" \notin card.has => row.tags = << >>
               /\ row.flds = FrontOf(c, i) \o <<Sep>> \o BackOf(c, i)

C16_Witness ==
  \E c \in Callers :
    /\ pc[c] = "done"
    /\ \E i \in 1..Len(Notes(c)) :
         args[c].cards[i] = AbsentCard /\ Notes(c)[i].flds = <<Sep>>

-----------------------------------------------------------------------------
(* The returned archive                                                    *)

CompleteSnapshot(snap, c) ==
  /\ snap.present /\ snap.tables = Tables
  /\ Len(snap.col) = 1 /\ Len(snap.notes) = N(c) /\ Len(snap.cards) = N(c)

(* C17: a call returns an archive only when it is done, and then the       *)
(* snapshot holds the collection row, all N notes and all N cards; a call  *)
(* that failed returned no blob.                                           *)
C17_AllOrNothing ==
  \A c \in Callers :
    /\ blob[c].present <=> pc[c] = "done"
    /\ blob[c].present => CompleteSnapshot(blob[c].collection, c)

C17_Witness ==
  \E c \in Callers :
    /\ pc[c] = "failed" /\ ~blob[c].present
    /\ N(c) = 2 /\ Len(Notes(c)) = 1 /\ Len(CardsOf(c)) = 1

(* C18: a returned archive holds exactly the entries collection.anki2,     *)
(* with the exported database, and media, with the text {}.                *)
C18_TwoEntries ==
  \A c \in Callers :
    pc[c] = "done" =>
      /\ blob[c].names = {"collection.anki2", "media"}
      /\ blob[c].collection = Export(db[c].db) /\ blob[c].collection.present
      /\ blob[c].media = "{}"

C18_Witness ==
  \E c \in Callers :
    pc[c] = "done" /\ N(c) = 1 /\ Cardinality(blob[c].names) = 2

(* C19: notes are stored in input order with increasing ids, the i-th note *)
(* holds front_i, separator, back_i, and the i-th card has due position i  *)
(* (counted from 1) and belongs to the i-th note.                          *)
C19_OrderPreserved ==
  \A c \in Callers :
    /\ \A i, j \in 1..Len(Notes(c)) : i < j => Notes(c)[i].id < Notes(c)[j].id
    /\ \A i \in 1..Len(Notes(c)) :
         Notes(c)[i].flds = FrontOf(c, i) \o <<Sep>> \o BackOf(c, i)
    /\ \A i \in 1..Len(CardsOf(c)) :
         CardsOf(c)[i].due = i /\ CardsOf(c)[i].nid = Notes(c)[i].id

C19_Witness ==
  \E c \in Callers :
    /\ pc[c] = "done" /\ N(c) = 2
    /\ Notes(c)[1].flds # Notes(c)[2].flds
    /\ CardsOf(c)[2].due = 2

-----------------------------------------------------------------------------
(* The download name                                                       *)

(* C20: the download name ends with .apkg; a name that already ends with   *)
(* .apkg is used as it is, any other name gets .apkg appended; applying    *)
(* the rule to the result changes nothing.                                 *)
C20_ApkgExtension ==
  dpc = "clicked" =>
    LET n == Len(dlName)
        m == Len(fileName)
        hadExt == m >= 5 /\ SubSeq(fileName, m - 4, m) = Apkg
    IN  /\ n >= 5 /\ SubSeq(dlName, n - 4, n) = Apkg
        /\ hadExt => dlName = fileName
        /\ ~hadExt => (n = m + 5 /\ SubSeq(dlName, 1, m) = fileName)
        /\ DownloadName(dlName) = dlName

C20_Witness ==
  /\ dpc = "clicked"
  /\ fileName = <<"a">> \o Apkg
  /\ dlName = fileName

-----------------------------------------------------------------------------
(* Properties of callOpenRouter                                            *)

StatusClass(status) ==
  IF status \in {401, 403} THEN "auth"
  ELSE IF status = 402 THEN "credits"
  ELSE IF status = 429 THEN "rate"
  ELSE IF status \in {502, 503} THEN "unavailable"
  ELSE "generic"

(* C21: a non-success response is classified by its status code alone:     *)
(* 401/403 authentication failure, 402 insufficient balance, 429 rate      *)
(* limited, 502/503 upstream unavailable, anything else generic; the body  *)
(* never changes the class.                                                *)
C21_ClassifiedByStatus ==
  (cpc = "done" /\ ~resp.net /\ ~ResponseOk(resp.status)) =>
    /\ cout.err = StatusClass(resp.status)
    /\ \A b \in ErrBodies : callOpenRouter([resp EXCEPT !.body = b]).err = cout.err

EmptyCompletion(r) ==
  /\ ~r.net /\ ResponseOk(r.status)
  /\ \/ r.data.kind \in {"nochoices", "emptychoices", "nomessage", "nocontent",
                         "nullcontent"}
     \/ r.data.kind = "content" /\ r.data.content = << >>

(* C22: a success response without completion text (no choices, no         *)
(* content, empty content) raises the empty-response error and parseJSON   *)
(* is not called; parseJSON is only ever called with a non-empty text, the *)
(* completion of the response.                                             *)
C22_EmptyResponseNotParsed ==
  cpc = "done" =>
    /\ EmptyCompletion(resp) => (cout.err = "empty" /\ ~cout.invoked)
    /\ cout.invoked =>
         /\ cout.arg # << >>
         /\ resp.data.kind = "content" /\ cout.arg = resp.data.content

C22_Witness ==
  /\ cpc = "done"
  /\ resp.data.kind = "content" /\ resp.data.content = << >>
  /\ ResponseOk(resp.status) /\ ~resp.net
  /\ cout.err = "empty"

-----------------------------------------------------------------------------
(* Properties of fetchAvailableModels                                      *)

(* C24: the fetched list holds only text-output models, at most 50 of      *)
(* them, and a model is marked free exactly when its prompt and its        *)
(* completion price are both "0".                                          *)
C24_TextOnlyCappedFree ==
  (mpc = "done" /\ mout.live) =>
    /\ Len(mout.models) <= ModelCap
    /\ \A k \in 1..Len(mout.models) :
         LET m == mout.models[k]
         IN  /\ m.id \in 1..Len(provided)
             /\ provided[m.id].text
             /\ m.free <=> (provided[m.id].prompt = "0"
                            /\ provided[m.id].completion = "0")

-----------------------------------------------------------------------------
(* Concurrent builds and the life of the database instance                 *)

CallerState(c) == <<pc[c], awaiting[c], sqlOut[c], args[c], db[c], blob[c]>>

(* the instance of c holds nothing but rows of c's own call *)
OwnRows(d, c) ==
  /\ Len(d.col) <= 1
  /\ Len(d.col) = 1 => d.col[1].conf.nextPos = N(c) + 1
  /\ Len(d.notes) <= N(c) /\ Len(d.cards) <= N(c)
  /\ \A i \in 1..Len(d.notes) : d.notes[i].sfld = FrontOf(c, i)

OwnInstance ==
  \A c \in Callers :
    /\ db[c].db.made <=> sqlOut[c].st = "ok"
    /\ OwnRows(db[c].db, c)
    /\ pc[c] = "done" =>
         /\ OwnRows(blob[c].collection, c)
         /\ Len(blob[c].collection.notes) = N(c)
         /\ Len(blob[c].collection.cards) = N(c)

OneCallerPerStep ==
  \A c1, c2 \in Callers :
    (CallerState(c1)' # CallerState(c1) /\ CallerState(c2)' # CallerState(c2))
      => c1 = c2

(* C25: with several builds in flight each build has a database instance   *)
(* of its own, made once the engine is acquired, holding only the rows of  *)
(* its own call, and its archive holds exactly the cards of its own call;  *)
(* a step changes the state of one build only, the builds share nothing    *)
(* but the memoized engine promise.                                        *)
C25_BuildsAreIsolated == []OwnInstance /\ [][OneCallerPerStep]_vars

C25_Witness ==
  /\ pc["app"] = "done" /\ Len(blob["app"].collection.notes) = 1
  /\ pc["hist2"] = "awaitZip" /\ Len(db["hist2"].binary.notes) = 2
  /\ pc["hist1"] = "awaitSql"

(* C26: an invocation that made a database instance has closed it by the   *)
(* time it finished, with a blob or with an error, and the instance is     *)
(* closed only after its binary state was exported.                        *)
C26_InstanceReleased ==
  \A c \in Callers :
    /\ (pc[c] \in {"done", "failed"} /\ db[c].db.made) => ~db[c].db.open
    /\ (db[c].db.made /\ ~db[c].db.open) => db[c].binary.present

-----------------------------------------------------------------------------
(* The pattern-extraction fallback                                         *)

(* the text from its first "[" on, as the fallback scans it; << >> when    *)
(* parseJSON does not get to the fallback                                  *)
FallbackText(clean0) ==
  LET arrStart == IndexOf(clean0, "[")
      clean == SubSeq(clean0, arrStart, Len(clean0))
      lastBrace == LastIndexOf(clean, "}")
  IN  IF /\ ~JsonOk(clean0) /\ arrStart # 0 /\ lastBrace # 0
         /\ ~JsonOk(SubSeq(clean, 1, lastBrace) \o <<"]">>)
        THEN clean ELSE << >>

(* C27: in the fallback every candidate is parsed on its own; the result   *)
(* is the candidates that parse, in their order in the text, whatever      *)
(* candidates fail before or after them; it raises only when none parses.  *)
C27_FallbackSkipsBadCandidates ==
  (ppc = "parsed" /\ FallbackText(CleanText(text)) # << >>) =>
    LET ms == Matches(FallbackText(CleanText(text)), 1)
        good == { i \in 1..Len(ms) : JsonOk(ms[i]) }
    IN  /\ pres.threw <=> good = {}
        /\ ~pres.threw =>
             /\ pres.kind = "array" /\ Len(pres.items) = Cardinality(good)
             /\ \A k \in 1..Len(pres.items) :
                  \E i \in good :
                    /\ Cardinality({ j \in good : j <= i }) = k
                    /\ pres.items[k] = NoWs(ms[i])

C27_Witness ==
  /\ ppc = "parsed" /\ ~pres.threw
  /\ LET ms == Matches(FallbackText(CleanText(text)), 1)
     IN  /\ Len(ms) = 2 /\ ~JsonOk(ms[1]) /\ JsonOk(ms[2])
         /\ pres.items = <<NoWs(ms[2])>>

-----------------------------------------------------------------------------
(* Properties of the deck history                                          *)

Elements(q) == { q[i] : i \in 1..Len(q) }

NewestFirst(q) == \A i, j \in 1..Len(q) : i < j => q[i].createdAt >= q[j].createdAt

(* C28: after any saves and deletes getDecks returns exactly the records   *)
(* saved and not deleted since, each as it was saved, newest first; a      *)
(* delete removes the record of that id only, a delete of an id that is    *)
(* not stored changes nothing.                                             *)
C28_HistoryIsSavedMinusDeleted ==
  LET decks == getDecks(stored)
  IN  /\ Elements(decks) = live
      /\ Len(decks) = Cardinality(live)
      /\ NewestFirst(decks)
      /\ Elements(ReadAll(stored)) = live
      /\ Len(ReadAll(stored)) = Cardinality(live)

C28_Witness ==
  /\ Cardinality(issued) = 3 /\ Cardinality(live) = 2
  /\ Len(savedDecks) = 2 /\ savedDecks = getDecks(stored)
  /\ savedDecks[1].createdAt > savedDecks[2].createdAt
  /\ ReadAll(stored) # savedDecks

-----------------------------------------------------------------------------
(* Properties of the App                                                   *)

GenerationSettles == generating.active /\ ~generating'.active

LastStored(item) == ReadAll(item)[Len(ReadAll(item))]

(* C23: a generation that succeeds appends exactly one record to the       *)
(* history, holding the generated cards, the deck name, model, difficulty, *)
(* source file name and tags of the generation, with cardCount the number  *)
(* of cards; a generation that fails appends nothing.                      *)
C23_OneRecordPerGeneration ==
  [][ GenerationSettles =>
        IF settled'.err = "none" /\ ~settled'.result.threw
          THEN /\ Len(ReadAll(stored')) = Len(ReadAll(stored)) + 1
               /\ SubSeq(ReadAll(stored'), 1, Len(ReadAll(stored))) = ReadAll(stored)
               /\ LET rec == LastStored(stored')
                  IN  /\ rec.cards = settled'.result
                      /\ rec.cards.kind = "array"
                      /\ rec.cardCount = <<Len(rec.cards.items)>>
                      /\ rec.deckName = IF generating.deckName = ""
                                          THEN "Untitled Deck"
                                          ELSE generating.deckName
                      /\ rec.model = DefaultModel
                      /\ rec.difficulty = "Intermediate"
                      /\ rec.sourceFile = IF generating.file = NoFile
                                            THEN "Pasted text"
                                            ELSE generating.file.name
                      /\ rec.tags = << >>
          ELSE stored' = stored ]_vars

(* C29: from Start Over until the user selects a file or submits text the  *)
(* extracted text and the card list are empty, whatever extraction or      *)
(* generation was in flight.                                               *)
C29_StaysClearedAfterStartOver ==
  cleared => (extractedText = << >> /\ cardsState = EmptyCards)

-----------------------------------------------------------------------------
(* Properties of the deck history's downloads                              *)

(* C30: while a deck's package generation is in flight its download button *)
(* is disabled (downloadingId is that deck's id), whatever is clicked on   *)
(* other decks, so no deck has two generations in flight.                  *)
C30_ButtonDisabledWhileInFlight ==
  \A d \in HistoryDecks :
    /\ inFlight[d] > 0 => ButtonDisabled(d)
    /\ inFlight[d] <= 1

====
